---- MODULE Spec2Model ----
(***************************************************************************)
(* Model of the meeting recorder: the tray application                     *)
(* (simplified_tray_app.py, RecorderTrayApp) that starts and stops a       *)
(* recorder worker process (debug_recorder.py), and the background thread  *)
(* wait_for_completion that stop_recording starts.                         *)
(*                                                                         *)
(* Time is in seconds and advances in steps of Quantum.  A handler of the  *)
(* UI thread runs without the clock advancing; threads interleave at the   *)
(* places where they read or write self.recorder_process.                  *)
(***************************************************************************)
EXTENDS Integers, Sequences, FiniteSets, TLC

\* ------------------------------------------------------------------ bounds
MaxSessions == 2        \* number of start_recording calls explored
MaxNow == 180           \* the clock stops advancing here
MaxChunks == 2          \* chunks of audio counted by the worker (it may read more)
MaxSeconds == 86399     \* greatest second count given to format_timestamp
MaxSegs == 2            \* greatest number of segments of a response
MaxCount == 2           \* greatest count given to get_latest_transcripts
MaxCells == 2           \* greatest length of a transcript, in buffers
MaxClock == 60          \* the clock of the two-run model stops advancing here

\* --------------------------------------------------------------- constants
ExitWait == 120         \* self.recorder_process.wait(timeout=120)
Tolerance == 150        \* (now - timestamp).total_seconds() < 150
SIGTERM == 15           \* Popen.terminate() sends SIGTERM

Quantum == ExitWait \div 2
None == 0               \* self.recorder_process = None
OldName == 0 - 1        \* name of a transcript left by an earlier run of the app
Sessions == 1..MaxSessions

VARIABLES
    recording,          \* self.recording
    recorder_process,   \* self.recorder_process: None or the process of a session
    menu_title,         \* sender.title of the toggle menu item
    title,              \* self.title
    mainpc,             \* position of the UI thread: "idle" or inside stop_recording
    nsess,              \* number of start_recording calls made so far
    proc,               \* the worker process of each session
    waiter,             \* the wait_for_completion thread of each session
    outcomes,           \* outcome notifications delivered for each session
    files,              \* the .txt files of CONFIG["transcript_dir"]
    now,                \* wall clock
    worker,             \* one run of debug_recorder.py seen from inside
    fmt                 \* inputs and results of format_timestamp and of the
                        \* transcript writer of transcribe_audio

vars == <<recording, recorder_process, menu_title, title, mainpc, nsess,
          proc, waiter, outcomes, files, now, worker, fmt>>

\* the state of the tray application, and the rest
appvars == <<recording, recorder_process, menu_title, title, mainpc, nsess,
             proc, waiter, outcomes, files, now>>
aux == <<worker, fmt>>
Idle == [pc |-> "idle"]

\* stopAt: when the stop line was written (-1: never); tname: the minute
\* transcribe_audio named its file after; killedBy, killedAt: the waiter whose
\* terminate() signalled the process, and when
NoProc == [st |-> "none", code |-> 0, reaped |-> FALSE, stopAt |-> 0 - 1,
           tname |-> 0 - 1, killedBy |-> None, killedAt |-> 0 - 1]
NoWaiter == [pc |-> "none", target |-> None, deadline |-> 0, via |-> "none",
             seen |-> "none"]

\* ------------------------------------------------------------ pure helpers

\* os.listdir + endswith(".txt") + getmtime, sort(reverse=True), [:count]
\* for count = 1: the file with the greatest (timestamp, filepath)
Newer(f, g) == \/ f.mtime > g.mtime
               \/ f.mtime = g.mtime /\ f.name > g.name

get_latest_transcripts(fs) ==
    IF fs = {} THEN <<>>
    ELSE <<CHOOSE f \in fs : \A g \in fs \ {f} : Newer(f, g)>>

\* the test of line 140 with the comparison reversed
IsRecentReversed(f, t) == t - f.mtime > Tolerance

\* the test of line 140
IsRecent(f, t) == t - f.mtime < Tolerance

\* open(transcript_path, 'w') ... write: the file of that name is replaced
WriteFile(fs, nm, t, w) ==
    {f \in fs : f.name # nm} \cup {[name |-> nm, mtime |-> t, writer |-> w]}

\* Popen.terminate() called by thread `by`: polls first, and signals only a
\* process that has not been seen to exit
Terminate(pr, p, by, t) ==
    IF pr[p].st = "exited"
    THEN [pr EXCEPT ![p].reaped = TRUE]
    ELSE [pr EXCEPT ![p].st = "exited", ![p].code = 0 - SIGTERM,
                    ![p].killedBy = by, ![p].killedAt = t]

Alive(p) == proc[p].st \in {"capture", "transcribe"}

\* -------------------------------------------------------------------- Init
AppInit ==
    /\ recording = FALSE
    /\ recorder_process = None
    /\ menu_title = "Start Recording"
    /\ title = "mic"
    /\ mainpc = "idle"
    /\ nsess = 0
    /\ proc = [s \in Sessions |-> NoProc]
    /\ waiter = [s \in Sessions |-> NoWaiter]
    /\ outcomes = [s \in Sessions |-> <<>>]
    /\ files \in {{}, {[name |-> OldName, mtime |-> 0 - Tolerance, writer |-> None]}}
    /\ now = 0

Init ==
    /\ AppInit
    /\ worker = Idle
    /\ fmt = Idle

\* ------------------------------------------------------------ UI thread

\* toggle_recording with self.recording False: start_recording, Popen succeeds
StartOk ==
    /\ UNCHANGED aux
    /\ mainpc = "idle"
    /\ ~recording
    /\ nsess < MaxSessions
    /\ nsess' = nsess + 1
    /\ recording' = TRUE
    /\ proc' = [proc EXCEPT ![nsess + 1] = [NoProc EXCEPT !.st = "capture"]]
    /\ recorder_process' = nsess + 1
    /\ menu_title' = "Stop Recording"
    /\ title' = "Recording..."
    /\ UNCHANGED <<mainpc, waiter, outcomes, files, now>>

\* start_recording whose except branch leaves self.recording set
StartFailKeepsRecording ==
    /\ UNCHANGED aux
    /\ mainpc = "idle"
    /\ ~recording
    /\ nsess < MaxSessions
    /\ nsess' = nsess + 1
    /\ recording' = TRUE
    /\ outcomes' = [outcomes EXCEPT ![nsess + 1] =
                       Append(@, [kind |-> "Failure", what |-> "spawn", file |-> None])]
    /\ menu_title' = "Stop Recording"
    /\ title' = "Recording..."
    /\ UNCHANGED <<recorder_process, mainpc, proc, waiter, files, now>>

\* toggle_recording with self.recording False: start_recording, Popen raises
StartFail ==
    /\ UNCHANGED aux
    /\ mainpc = "idle"
    /\ ~recording
    /\ nsess < MaxSessions
    /\ nsess' = nsess + 1
    /\ recording' = FALSE
    /\ outcomes' = [outcomes EXCEPT ![nsess + 1] =
                       Append(@, [kind |-> "Failure", what |-> "spawn", file |-> None])]
    /\ menu_title' = "Stop Recording"
    /\ title' = "Recording..."
    /\ UNCHANGED <<recorder_process, mainpc, proc, waiter, files, now>>

\* an except branch of stop_recording that notifies without calling terminate()
StopWriteErrorNoTerminate(p) ==
    /\ outcomes' = [outcomes EXCEPT ![p] =
                       Append(@, [kind |-> "Failure", what |-> "write", file |-> None])]
    /\ UNCHANGED <<proc, waiter>>

\* stop_recording, the except branch: the write or the flush of the stop line
\* raised (the worker has exited, the pipe is broken)
StopWriteError(p) ==
    /\ proc' = Terminate(proc, p, None, now)
    /\ outcomes' = [outcomes EXCEPT ![p] =
                       Append(@, [kind |-> "Failure", what |-> "write", file |-> None])]
    /\ UNCHANGED waiter

\* stop_recording, the try branch: the newline is written and flushed, the
\* waiter thread is started
StopSignal(p) ==
    /\ proc' = [proc EXCEPT ![p].stopAt = now]
    /\ waiter' = [waiter EXCEPT ![p].pc = "start"]
    /\ UNCHANGED outcomes

\* toggle_recording with self.recording True: stop_recording up to, and not
\* including, the assignment self.recorder_process = None
StopBegin ==
    /\ UNCHANGED aux
    /\ mainpc = "idle"
    /\ recording
    /\ mainpc' = "stopping"
    /\ IF recorder_process = None
       THEN UNCHANGED <<proc, waiter, outcomes>>
       ELSE IF proc[recorder_process].st = "exited"
            THEN StopWriteError(recorder_process)
            ELSE StopSignal(recorder_process)
    /\ UNCHANGED <<recording, recorder_process, menu_title, title, nsess, files, now>>

\* a stop_recording that waits for the worker to exit before it returns
StopFinishWaits ==
    /\ UNCHANGED aux
    /\ mainpc = "stopping"
    /\ recorder_process # None => proc[recorder_process].st = "exited"
    /\ recorder_process' = None
    /\ recording' = FALSE
    /\ menu_title' = "Start Recording"
    /\ title' = "mic"
    /\ mainpc' = "idle"
    /\ UNCHANGED <<nsess, proc, waiter, outcomes, files, now>>

\* the rest of stop_recording and of toggle_recording
StopFinish ==
    /\ UNCHANGED aux
    /\ mainpc = "stopping"
    /\ recorder_process' = None
    /\ recording' = FALSE
    /\ menu_title' = "Start Recording"
    /\ title' = "mic"
    /\ mainpc' = "idle"
    /\ UNCHANGED <<nsess, proc, waiter, outcomes, files, now>>

\* ------------------------------------------- wait_for_completion thread

\* evaluates self.recorder_process and calls wait(timeout=120) on it
WaiterBegin(s) ==
    /\ UNCHANGED aux
    /\ waiter[s].pc = "start"
    /\ IF recorder_process = None
       THEN waiter' = [waiter EXCEPT ![s].pc = "crashed"]
       ELSE waiter' = [waiter EXCEPT ![s].pc = "waiting",
                                     ![s].target = recorder_process,
                                     ![s].deadline = now + ExitWait]
    /\ UNCHANGED <<recording, recorder_process, menu_title, title, mainpc, nsess,
                   proc, outcomes, files, now>>

\* wait() returns: the process has exited; the transcript directory is checked
WaiterExit(s) ==
    /\ UNCHANGED aux
    /\ waiter[s].pc = "waiting"
    /\ proc[waiter[s].target].st = "exited"
    /\ proc' = [proc EXCEPT ![waiter[s].target].reaped = TRUE]
    /\ LET latest_files == get_latest_transcripts(files) IN
       IF latest_files # <<>>
       THEN IF IsRecent(latest_files[1], now)
            THEN /\ outcomes' = [outcomes EXCEPT ![s] =
                        Append(@, [kind |-> "Success", what |-> "complete",
                                   file |-> latest_files[1].name])]
                 /\ waiter' = [waiter EXCEPT ![s].pc = "done", ![s].via = "exit",
                                             ![s].seen = "recent"]
            ELSE /\ outcomes' = outcomes
                 /\ waiter' = [waiter EXCEPT ![s].pc = "done", ![s].via = "exit",
                                             ![s].seen = "old"]
       ELSE /\ outcomes' = [outcomes EXCEPT ![s] =
                        Append(@, [kind |-> "Failure", what |-> "no transcript",
                                   file |-> None])]
            /\ waiter' = [waiter EXCEPT ![s].pc = "done", ![s].via = "exit",
                                        ![s].seen = "nothing"]
    /\ UNCHANGED <<recording, recorder_process, menu_title, title, mainpc, nsess,
                   files, now>>

\* wait() raises TimeoutExpired: self.recorder_process.terminate(), notification
WaiterTimeout(s) ==
    /\ UNCHANGED aux
    /\ waiter[s].pc = "waiting"
    /\ proc[waiter[s].target].st # "exited"
    /\ now >= waiter[s].deadline
    /\ IF recorder_process = None
       THEN /\ waiter' = [waiter EXCEPT ![s].pc = "crashed", ![s].via = "timeout"]
            /\ UNCHANGED <<proc, outcomes>>
       ELSE /\ proc' = Terminate(proc, recorder_process, s, now)
            /\ outcomes' = [outcomes EXCEPT ![s] =
                        Append(@, [kind |-> "TimedOut", what |-> "timeout", file |-> None])]
            /\ waiter' = [waiter EXCEPT ![s].pc = "done", ![s].via = "timeout"]
    /\ UNCHANGED <<recording, recorder_process, menu_title, title, mainpc, nsess,
                   files, now>>

\* ------------------------------------------------------- worker process

\* record_audio returns None (the stream cannot be opened): main returns
WorkerAbort(p) ==
    /\ UNCHANGED aux
    /\ proc[p].st = "capture"
    /\ proc' = [proc EXCEPT ![p].st = "exited", ![p].code = 0]
    /\ UNCHANGED <<recording, recorder_process, menu_title, title, mainpc, nsess,
                   waiter, outcomes, files, now>>

\* input() returns: the capture loop ends, transcribe_audio picks the file name
WorkerStop(p) ==
    /\ UNCHANGED aux
    /\ proc[p].st = "capture"
    /\ proc[p].stopAt >= 0
    /\ proc' = [proc EXCEPT ![p].st = "transcribe", ![p].tname = now]
    /\ UNCHANGED <<recording, recorder_process, menu_title, title, mainpc, nsess,
                   waiter, outcomes, files, now>>

\* transcribe_audio returns (the path when ok, None otherwise); main returns
WorkerFinish(p, ok) ==
    /\ UNCHANGED aux
    /\ proc[p].st = "transcribe"
    /\ proc' = [proc EXCEPT ![p].st = "exited", ![p].code = 0]
    /\ files' = IF ok THEN WriteFile(files, proc[p].tname, now, p) ELSE files
    /\ UNCHANGED <<recording, recorder_process, menu_title, title, mainpc, nsess,
                   waiter, outcomes, now>>

\* ---------------------------------------------------------------- clock
\* The clock advances only when no step that takes milliseconds is pending: a
\* started thread reaching its first statement (line 165 to line 131), the
\* capture loop of the worker noticing the stop line (one chunk), wait()
\* noticing an exit or its timeout.  Such steps still interleave freely with
\* each other and with the UI thread.
Pending ==
    \/ \E s \in Sessions : waiter[s].pc = "start"
    \/ \E p \in Sessions : proc[p].st = "capture" /\ proc[p].stopAt >= 0
    \/ \E s \in Sessions : /\ waiter[s].pc = "waiting"
                            /\ \/ proc[waiter[s].target].st = "exited"
                               \/ now >= waiter[s].deadline

Tick ==
    /\ UNCHANGED aux
    /\ mainpc = "idle"
    /\ ~Pending
    /\ now + Quantum <= MaxNow
    /\ now' = now + Quantum
    /\ UNCHANGED <<recording, recorder_process, menu_title, title, mainpc, nsess,
                   proc, waiter, outcomes, files>>

Next ==
    \/ StartOk
    \/ StartFail
    \/ StopBegin
    \/ StopFinish
    \/ \E s \in Sessions : WaiterBegin(s)
    \/ \E s \in Sessions : WaiterExit(s)
    \/ \E s \in Sessions : WaiterTimeout(s)
    \/ \E p \in Sessions : WorkerAbort(p)
    \/ \E p \in Sessions : WorkerStop(p)
    \/ \E p \in Sessions : \E ok \in BOOLEAN : WorkerFinish(p, ok)
    \/ Tick

Spec == Init /\ [][Next]_vars


\* ------------------------------------------------------------------------
\* One run of the worker, debug_recorder.py, seen from inside: main(),
\* record_audio(), the stop-detection thread wait_for_stop(), and
\* transcribe_audio().  The environment writes a line to its stdin or closes it.
\* ------------------------------------------------------------------------

Bump(n) == IF n < MaxChunks THEN n + 1 ELSE n

\* pc: position of the main thread; stdin: "open", "line" or "eof"; thread:
\* the stop-detection thread; chunks: chunks read; late: chunks whose read began
\* after the thread had ended; temp: the temporary .wav file exists; wav:
\* record_audio returned the file; key: CONFIG["api_key"] is not empty; calls:
\* transcription requests; nwrites: transcript files opened for writing;
\* artifact: the transcript file of this run; ret: transcribe_audio returned
\* the path; code: exit status (-1 while running); stderr: something was
\* written to the error channel; failed: the failure that happened
WorkerStart(k) ==
    [pc |-> "start", stdin |-> "open", thread |-> "none", chunks |-> 0,
     late |-> 0, temp |-> FALSE, readerr |-> FALSE, wav |-> FALSE, key |-> k,
     calls |-> 0, callok |-> FALSE, nwrites |-> 0, artifact |-> "absent",
     ret |-> FALSE, code |-> 0 - 1, stderr |-> FALSE, failed |-> "none"]

InitW ==
    /\ AppInit
    /\ worker \in {WorkerStart(k) : k \in BOOLEAN}
    /\ fmt = Idle

\* the supervisor writes the stop line, or the write end of the pipe is closed
W_EnvLine ==
    /\ worker.pc # "exited"
    /\ worker.stdin = "open"
    /\ worker' = [worker EXCEPT !.stdin = "line"]
    /\ UNCHANGED <<appvars, fmt>>

W_EnvEOF ==
    /\ worker.pc # "exited"
    /\ worker.stdin = "open"
    /\ worker' = [worker EXCEPT !.stdin = "eof"]
    /\ UNCHANGED <<appvars, fmt>>

\* record_audio up to the opening of the stream: the temporary file is created
W_CreateTemp ==
    /\ worker.pc = "start"
    /\ worker' = [worker EXCEPT !.pc = "open", !.temp = TRUE]
    /\ UNCHANGED <<appvars, fmt>>

\* p.open(**stream_kwargs): on failure record_audio returns None and main
\* returns; on success the stop-detection thread is started
W_OpenStream(ok) ==
    /\ worker.pc = "open"
    /\ worker' = IF ok
                 THEN [worker EXCEPT !.pc = "read", !.thread = "blocked"]
                 ELSE [worker EXCEPT !.pc = "exit", !.failed = "device"]
    /\ UNCHANGED <<appvars, fmt>>

\* a wait_for_stop that goes back to input() when the channel is closed
W_ThreadInputRetryOnEOF ==
    /\ worker.thread = "blocked"
    /\ worker.stdin = "line"
    /\ worker' = [worker EXCEPT !.thread = "ended"]
    /\ UNCHANGED <<appvars, fmt>>

\* wait_for_stop: input() returns a line, or raises EOFError, which ends the
\* thread with a traceback on the error channel
W_ThreadInput ==
    /\ worker.thread = "blocked"
    /\ worker.stdin # "open"
    /\ worker' = [worker EXCEPT !.thread = "ended",
                                !.stderr = @ \/ worker.stdin = "eof"]
    /\ UNCHANGED <<appvars, fmt>>

\* the capture loop: stream.read(CHUNK); an exception breaks out of the loop
W_ReadChunk(ok) ==
    /\ worker.pc = "read"
    /\ worker' = IF ok
                 THEN [worker EXCEPT !.pc = "check", !.chunks = Bump(@),
                                     !.late = IF worker.thread = "ended"
                                              THEN Bump(@) ELSE @]
                 ELSE [worker EXCEPT !.pc = "close", !.readerr = TRUE]
    /\ UNCHANGED <<appvars, fmt>>

\* the capture loop: if not stop_thread.is_alive(): recording = False
W_CheckStop ==
    /\ worker.pc = "check"
    /\ worker' = [worker EXCEPT !.pc = IF worker.thread = "ended"
                                       THEN "close" ELSE "read"]
    /\ UNCHANGED <<appvars, fmt>>

\* stream.stop_stream(), stream.close(), p.terminate(): outside any try, an
\* exception reaches the handler at the bottom of the script
W_CloseStream(ok) ==
    /\ worker.pc = "close"
    /\ worker' = IF ok
                 THEN [worker EXCEPT !.pc = "save"]
                 ELSE [worker EXCEPT !.pc = "exit", !.failed = "unhandled"]
    /\ UNCHANGED <<appvars, fmt>>

\* the WAV file is written into the temporary file; on failure record_audio
\* returns None and main returns
W_SaveWav(ok) ==
    /\ worker.pc = "save"
    /\ worker' = IF ok
                 THEN [worker EXCEPT !.pc = "transcribe", !.wav = TRUE]
                 ELSE [worker EXCEPT !.pc = "exit", !.failed = "save"]
    /\ UNCHANGED <<appvars, fmt>>

\* transcribe_audio up to the request: the tests of the file and of the key
W_TranscribeEnter ==
    /\ worker.pc = "transcribe"
    /\ worker' = IF worker.temp /\ worker.key
                 THEN [worker EXCEPT !.pc = "api"]
                 ELSE [worker EXCEPT !.pc = "cleanup", !.failed = "nokey"]
    /\ UNCHANGED <<appvars, fmt>>

\* a transcription request that is sent again when it fails
W_ApiCallRetry(ok) ==
    /\ worker.pc = "api"
    /\ worker' = IF ok
                 THEN [worker EXCEPT !.pc = "write", !.calls = Bump(@),
                                     !.callok = TRUE]
                 ELSE [worker EXCEPT !.calls = Bump(@)]
    /\ worker' # worker
    /\ UNCHANGED <<appvars, fmt>>

\* client.audio.transcriptions.create(...): an exception makes
\* transcribe_audio return None
W_ApiCall(ok) ==
    /\ worker.pc = "api"
    /\ worker' = IF ok
                 THEN [worker EXCEPT !.pc = "write", !.calls = Bump(@),
                                     !.callok = TRUE]
                 ELSE [worker EXCEPT !.pc = "cleanup", !.calls = Bump(@),
                                     !.failed = "api"]
    /\ UNCHANGED <<appvars, fmt>>

\* with open(transcript_path, 'w') as f: ...; an exception while writing makes
\* transcribe_audio return None and leaves what was written
W_WriteArtifact(ok) ==
    /\ worker.pc = "write"
    /\ worker' = IF ok
                 THEN [worker EXCEPT !.pc = "cleanup", !.nwrites = Bump(@),
                                     !.artifact = "complete", !.ret = TRUE]
                 ELSE [worker EXCEPT !.pc = "cleanup", !.nwrites = Bump(@),
                                     !.artifact = "partial", !.failed = "write"]
    /\ UNCHANGED <<appvars, fmt>>

\* main: if audio_file and os.path.exists(audio_file): os.unlink(audio_file)
W_Cleanup ==
    /\ worker.pc = "cleanup"
    /\ worker' = [worker EXCEPT !.pc = "exit", !.temp = FALSE]
    /\ UNCHANGED <<appvars, fmt>>

\* main returns, or the handler at the bottom of the script has logged the
\* exception: the interpreter exits with status 0
W_Exit ==
    /\ worker.pc = "exit"
    /\ worker' = [worker EXCEPT !.pc = "exited", !.code = 0]
    /\ UNCHANGED <<appvars, fmt>>

NextW ==
    \/ W_EnvLine
    \/ W_EnvEOF
    \/ W_CreateTemp
    \/ \E ok \in BOOLEAN : W_OpenStream(ok)
    \/ W_ThreadInput
    \/ \E ok \in BOOLEAN : W_ReadChunk(ok)
    \/ W_CheckStop
    \/ \E ok \in BOOLEAN : W_CloseStream(ok)
    \/ \E ok \in BOOLEAN : W_SaveWav(ok)
    \/ W_TranscribeEnter
    \/ \E ok \in BOOLEAN : W_ApiCall(ok)
    \/ \E ok \in BOOLEAN : W_WriteArtifact(ok)
    \/ W_Cleanup
    \/ W_Exit

\* both threads of the worker are scheduled, and each read returns
W_MainStep ==
    \/ W_CreateTemp
    \/ \E ok \in BOOLEAN : W_OpenStream(ok)
    \/ \E ok \in BOOLEAN : W_ReadChunk(ok)
    \/ W_CheckStop
    \/ \E ok \in BOOLEAN : W_CloseStream(ok)
    \/ \E ok \in BOOLEAN : W_SaveWav(ok)
    \/ W_TranscribeEnter
    \/ \E ok \in BOOLEAN : W_ApiCall(ok)
    \/ \E ok \in BOOLEAN : W_WriteArtifact(ok)
    \/ W_Cleanup
    \/ W_Exit

SpecW == InitW /\ [][NextW]_vars /\ WF_vars(W_ThreadInput) /\ WF_vars(W_MainStep)


\* ------------------------------------------------------------------------
\* format_timestamp and the transcript writer of transcribe_audio.  Text is a
\* sequence of one-character strings; a number of seconds with a fraction is
\* given in tenths of a second.
\* ------------------------------------------------------------------------

Digit(d) == <<"0", "1", "2", "3", "4", "5", "6", "7", "8", "9">>[d + 1]

\* str(n) for an integer n >= 0
RECURSIVE DecStr(_)
DecStr(n) == IF n < 10 THEN <<Digit(n)>>
             ELSE DecStr(n \div 10) \o <<Digit(n % 10)>>

\* f"{n:02d}" for n >= 0
Pad2(n) == IF n < 10 THEN <<"0">> \o DecStr(n) ELSE DecStr(n)

\* format_timestamp that does not take the minutes modulo 60
format_timestamp_no_mod(tenths) ==
    LET m1 == tenths \div 600
        s  == (tenths % 600) \div 10
        h  == m1 \div 60
    IN  Pad2(h) \o <<":">> \o Pad2(m1) \o <<":">> \o Pad2(s)

\* m, s = divmod(seconds, 60); h, m = divmod(m, 60);
\* f"{int(h):02d}:{int(m):02d}:{int(s):02d}"
format_timestamp(tenths) ==
    LET m1 == tenths \div 600
        s  == (tenths % 600) \div 10
        h  == m1 \div 60
        m  == m1 % 60
    IN  Pad2(h) \o <<":">> \o Pad2(m) \o <<":">> \o Pad2(s)

InitF ==
    /\ AppInit
    /\ worker = Idle
    /\ fmt \in {[pc |-> "in", secs |-> n] : n \in 0..MaxSeconds}

\* format_timestamp(secs) for an integer second count
F_Format ==
    /\ fmt.pc = "in"
    /\ fmt' = [pc |-> "out", secs |-> fmt.secs, out |-> format_timestamp(10 * fmt.secs)]
    /\ UNCHANGED <<appvars, worker>>

NextF == F_Format

SpecF == InitF /\ [][NextF]_vars

\* str.strip(): leading and trailing whitespace is removed
Space == {" ", "\t", "\n"}

RECURSIVE lstrip(_)
lstrip(t) == IF t # <<>> /\ Head(t) \in Space THEN lstrip(Tail(t)) ELSE t

RECURSIVE rstrip(_)
rstrip(t) == IF t # <<>> /\ t[Len(t)] \in Space
             THEN rstrip(SubSeq(t, 1, Len(t) - 1)) ELSE t

strip(t) == rstrip(lstrip(t))

\* "=" * 50
Rep(c, n) == [i \in 1..n |-> c]
SeparatorLen == 50

\* the responses given to the writer: segments with a start in tenths of a
\* second and a one-line text, and the text of the whole response
Hello == <<"h", "e", "l", "l", "o">>
World == <<"w", "o", "r", "l", "d">>
Padded == <<" ", "a", " ", "b", "\n">>
TwoLines == <<"a", "\n", "b">>
Starts == {0, 655, 36599}
Texts == {Hello, World, Padded, TwoLines}
SegOf == [start : Starts, text : Texts]
SegLists == UNION {[1..n -> SegOf] : n \in 0..MaxSegs}
Devices == {"Built-in Microphone", "System Default"}
Stamp == "YYYY-MM-DD HH:MM"

InitA ==
    /\ AppInit
    /\ worker = Idle
    /\ fmt \in {[pc |-> "header", device |-> d, segments |-> g, text |-> Hello,
                 i |-> 1, body |-> <<>>] : d \in Devices, g \in SegLists}

\* the four f.write calls of the header
A_WriteHeader ==
    /\ fmt.pc = "header"
    /\ fmt' = [fmt EXCEPT
                 !.body = <<"MEETING RECORDING TRANSCRIPT", "\n",
                            "Recorded: ", Stamp, "\n",
                            "Device: ", fmt.device, "\n">>
                          \o Rep("=", SeparatorLen) \o <<"\n", "\n">>,
                 !.pc = IF fmt.segments # <<>> THEN "segments" ELSE "plain"]
    /\ UNCHANGED <<appvars, worker>>

\* one turn of: for segment in response.segments
A_WriteSegment ==
    /\ fmt.pc = "segments"
    /\ LET segment == fmt.segments[fmt.i]
           timestamp == format_timestamp(segment.start)
           text == strip(segment.text)
       IN  fmt' = [fmt EXCEPT
                     !.body = @ \o <<"[">> \o timestamp \o <<"]", " ">> \o text
                                \o <<"\n", "\n">>,
                     !.i = @ + 1,
                     !.pc = IF fmt.i = Len(fmt.segments) THEN "done" ELSE "segments"]
    /\ UNCHANGED <<appvars, worker>>

\* no segments: f.write(response.text)
A_WritePlain ==
    /\ fmt.pc = "plain"
    /\ fmt' = [fmt EXCEPT !.body = @ \o fmt.text, !.pc = "done"]
    /\ UNCHANGED <<appvars, worker>>

NextA ==
    \/ A_WriteHeader
    \/ A_WriteSegment
    \/ A_WritePlain

SpecA == InitA /\ [][NextA]_vars


\* ------------------------------------------------------------------------
\* get_latest_transcripts(count) over a directory of entries with names and
\* modification times.  A name is a sequence of characters.
\* ------------------------------------------------------------------------

\* the characters of the names, in code-point order
Alphabet == <<".", "a", "b", "t", "x">>
Ord(c) == CHOOSE i \in 1..Len(Alphabet) : Alphabet[i] = c

\* s < t for two str
RECURSIVE StrLess(_, _)
StrLess(s, t) ==
    IF t = <<>> THEN FALSE
    ELSE IF s = <<>> THEN TRUE
    ELSE IF Head(s) = Head(t) THEN StrLess(Tail(s), Tail(t))
    ELSE Ord(Head(s)) < Ord(Head(t))

\* filename.endswith(suffix)
endswith(s, suffix) ==
    /\ Len(s) >= Len(suffix)
    /\ SubSeq(s, Len(s) - Len(suffix) + 1, Len(s)) = suffix

DotTxt == <<".", "t", "x", "t">>

\* the directories listed: a.txt, b.txt, .txt, a.tx, txt, each absent or
\* present with one of two modification times
FileNames == {<<"a">> \o DotTxt, <<"b">> \o DotTxt, DotTxt,
              <<"a", ".", "t", "x">>, <<"t", "x", "t">>}
Mtimes == {0, 60}
Dirs == UNION {{{[name |-> n, mtime |-> m[n]] : n \in S} : m \in [S -> Mtimes]}
                  : S \in SUBSET FileNames}

\* (timestamp, filepath) > (timestamp, filepath) for two tuples of the list
EntryNewer(f, g) ==
    \/ f.mtime > g.mtime
    \/ f.mtime = g.mtime /\ StrLess(g.name, f.name)

\* transcript_files.sort(reverse=True)
RECURSIVE SortReverse(_)
SortReverse(S) ==
    IF S = {} THEN <<>>
    ELSE LET m == CHOOSE f \in S : \A g \in S \ {f} : EntryNewer(f, g)
         IN  <<m>> \o SortReverse(S \ {m})

\* transcript_files[:count] for count >= 0
Slice(q, count) == SubSeq(q, 1, IF count < Len(q) THEN count ELSE Len(q))

\* get_latest_transcripts without the test of the name
LatestTranscriptsUnfiltered(dir, count, listable) ==
    IF ~listable THEN <<>>
    ELSE Slice(SortReverse(dir), count)

\* get_latest_transcripts(count); listable: os.listdir and os.path.getmtime do
\* not raise (when one raises, the except branch returns [])
LatestTranscripts(dir, count, listable) ==
    IF ~listable THEN <<>>
    ELSE Slice(SortReverse({f \in dir : endswith(f.name, DotTxt)}), count)

InitG ==
    /\ AppInit
    /\ worker = Idle
    /\ fmt \in {[pc |-> "call", dir |-> d, count |-> c, listable |-> l]
                   : d \in Dirs, c \in 0..MaxCount, l \in BOOLEAN}

\* one call: the directory is listed and the times are read, nothing is written
G_Call ==
    /\ fmt.pc = "call"
    /\ fmt' = [pc |-> "returned", before |-> fmt.dir, dir |-> fmt.dir,
               count |-> fmt.count, listable |-> fmt.listable,
               result |-> LatestTranscripts(fmt.dir, fmt.count, fmt.listable)]
    /\ UNCHANGED <<appvars, worker>>

NextG == G_Call

SpecG == InitG /\ [][NextG]_vars


\* ------------------------------------------------------------------------
\* Two runs of the worker that reach transcribe_audio: each names its
\* transcript after the minute, opens it with mode 'w', writes and closes.
\* The content of a run is a sequence of cells <<run, i>>, one cell per buffer
\* of the file object: a full buffer is written out when it fills, the rest
\* when the file is closed.  Each process has its own file offset.
\* ------------------------------------------------------------------------

Runs == 1..2
Minute == 60
HalfMinute == Minute \div 2
Content(r, len) == [i \in 1..len |-> <<r, i>>]
Hole == <<0, 0>>

\* datetime.datetime.now().strftime("%Y-%m-%d_%H-%M") + ".txt"
TranscriptPath(t) == t \div Minute

\* write(2) of one cell at offset pos of a file: the file is extended, with a
\* hole when pos is beyond its end
WriteAt(file, pos, cell) ==
    [i \in 1..(IF pos + 1 > Len(file) THEN pos + 1 ELSE Len(file)) |->
        IF i = pos + 1 THEN cell
        ELSE IF i <= Len(file) THEN file[i] ELSE Hole]

RunStart(len) == [pc |-> "idle", path |-> 0 - 1, len |-> len, pos |-> 0,
                  opened |-> 0, wrote |-> 0, closed |-> 0]

\* clock: seconds; n: number of file operations so far; disk: the content of
\* the transcript of each minute, <<>> also for a file that does not exist
InitC ==
    /\ AppInit
    /\ fmt = Idle
    /\ worker \in {[clock |-> 0, n |-> 0,
                    run |-> [r \in Runs |-> RunStart(l[r])],
                    disk |-> [m \in 0..(MaxClock \div Minute) |-> <<>>]]
                      : l \in [Runs -> 1..MaxCells]}

\* transcribe_audio generates the transcript filename
C_Name(r) ==
    /\ worker.run[r].pc = "idle"
    /\ worker' = [worker EXCEPT !.run[r].pc = "named",
                                !.run[r].path = TranscriptPath(worker.clock)]
    /\ UNCHANGED <<appvars, fmt>>

\* open(transcript_path, 'w'): the file is created or truncated
C_Open(r) ==
    /\ worker.run[r].pc = "named"
    /\ worker' = [worker EXCEPT !.run[r].pc = "open",
                                !.run[r].opened = worker.n + 1,
                                !.n = @ + 1,
                                !.disk[worker.run[r].path] = <<>>]
    /\ UNCHANGED <<appvars, fmt>>

\* f.write fills the buffer: the buffer is written at the offset of this run
C_Flush(r) ==
    /\ worker.run[r].pc = "open"
    /\ worker.run[r].pos < worker.run[r].len - 1
    /\ worker' = [worker EXCEPT
                    !.run[r].pos = @ + 1,
                    !.run[r].wrote = worker.n + 1,
                    !.n = @ + 1,
                    !.disk[worker.run[r].path] =
                        WriteAt(@, worker.run[r].pos, <<r, worker.run[r].pos + 1>>)]
    /\ UNCHANGED <<appvars, fmt>>

\* the end of the with block: the rest of the buffer is written, the file is
\* closed
C_Close(r) ==
    /\ worker.run[r].pc = "open"
    /\ worker.run[r].pos = worker.run[r].len - 1
    /\ worker' = [worker EXCEPT
                    !.run[r].pc = "closed",
                    !.run[r].pos = @ + 1,
                    !.run[r].wrote = worker.n + 1,
                    !.run[r].closed = worker.n + 1,
                    !.n = @ + 1,
                    !.disk[worker.run[r].path] =
                        WriteAt(@, worker.run[r].pos, <<r, worker.run[r].pos + 1>>)]
    /\ UNCHANGED <<appvars, fmt>>

C_Tick ==
    /\ worker.clock + HalfMinute <= MaxClock
    /\ \E r \in Runs : worker.run[r].pc # "closed"
    /\ worker' = [worker EXCEPT !.clock = @ + HalfMinute]
    /\ UNCHANGED <<appvars, fmt>>

NextC ==
    \/ \E r \in Runs : C_Name(r)
    \/ \E r \in Runs : C_Open(r)
    \/ \E r \in Runs : C_Flush(r)
    \/ \E r \in Runs : C_Close(r)
    \/ C_Tick

SpecC == InitC /\ [][NextC]_vars


\* ------------------------------------------------------------------------
\* The tray application with the scripts beside it: start_recording looks for
\* debug_recorder.py, calls create_recorder_process when it is missing, and
\* launches debug_recorder.py.  worker.scripts: the scripts that exist;
\* worker.spawn: what the interpreter of each session was given.
\* ------------------------------------------------------------------------

LaunchedScript == "debug_recorder.py"
CreatedScript == "recorder_process.py"

\* if not os.path.exists(recorder_script): self.create_recorder_process()
AfterCreate(scripts) ==
    IF LaunchedScript \in scripts THEN scripts ELSE scripts \cup {CreatedScript}

InitS ==
    /\ AppInit
    /\ fmt = Idle
    /\ worker \in {[scripts |-> sc, spawn |-> [s \in Sessions |-> "none"]]
                      : sc \in SUBSET {LaunchedScript, CreatedScript}}

\* start_recording, Popen succeeds: the interpreter runs the script, or exits
\* at once with status 2 when it cannot open it
S_StartOk ==
    /\ mainpc = "idle"
    /\ ~recording
    /\ nsess < MaxSessions
    /\ nsess' = nsess + 1
    /\ recording' = TRUE
    /\ LET found == LaunchedScript \in AfterCreate(worker.scripts) IN
       /\ worker' = [worker EXCEPT
                       !.scripts = AfterCreate(@),
                       !.spawn[nsess + 1] = IF found THEN "script" ELSE "nofile"]
       /\ proc' = [proc EXCEPT ![nsess + 1] =
                      IF found THEN [NoProc EXCEPT !.st = "capture"]
                      ELSE [NoProc EXCEPT !.st = "exited", !.code = 2]]
    /\ recorder_process' = nsess + 1
    /\ menu_title' = "Stop Recording"
    /\ title' = "Recording..."
    /\ UNCHANGED <<mainpc, waiter, outcomes, files, now, fmt>>

\* start_recording, Popen raises
S_StartFail ==
    /\ mainpc = "idle"
    /\ ~recording
    /\ nsess < MaxSessions
    /\ nsess' = nsess + 1
    /\ recording' = FALSE
    /\ worker' = [worker EXCEPT !.scripts = AfterCreate(@)]
    /\ outcomes' = [outcomes EXCEPT ![nsess + 1] =
                       Append(@, [kind |-> "Failure", what |-> "spawn", file |-> None])]
    /\ menu_title' = "Stop Recording"
    /\ title' = "Recording..."
    /\ UNCHANGED <<recorder_process, mainpc, proc, waiter, files, now, fmt>>

NextS ==
    \/ S_StartOk
    \/ S_StartFail
    \/ StopBegin
    \/ StopFinish
    \/ \E s \in Sessions : WaiterBegin(s)
    \/ \E s \in Sessions : WaiterExit(s)
    \/ \E s \in Sessions : WaiterTimeout(s)
    \/ \E p \in Sessions : WorkerAbort(p)
    \/ \E p \in Sessions : WorkerStop(p)
    \/ \E p \in Sessions : \E ok \in BOOLEAN : WorkerFinish(p, ok)
    \/ Tick

SpecS == InitS /\ [][NextS]_vars

\* ------------------------------------------------------------ properties

Finished(s) == waiter[s].pc \in {"done", "crashed"}
Kinds(s) == [i \in 1..Len(outcomes[s]) |-> outcomes[s][i].kind]
SpawnFailed(s) == outcomes[s] # <<>> /\ outcomes[s][1].what = "spawn"
WriteFailed(s) == \E i \in 1..Len(outcomes[s]) : outcomes[s][i].what = "write"

\* C1: at most one spawned worker process is alive at any time; the worker of
\* an earlier session that is still transcribing is never alive together with
\* the worker of a later session.
C1_AtMostOneWorkerAlive ==
    Cardinality({p \in Sessions : Alive(p)}) <= 1

\* C2: a start is accepted (a worker is spawned) only when every earlier
\* session that was spawned has had its outcome delivered; a start issued
\* while a session is still recording or stopping spawns nothing.
C2_StartOnlyAfterOutcome ==
    [][(nsess' = nsess + 1 /\ proc'[nsess'].st = "capture")
       => \A s \in 1..nsess : proc[s].st # "none" => outcomes[s] # <<>>]_vars

\* C3: a session that was stopped ends with exactly one outcome notification:
\* when its waiter thread has ended, one outcome, not zero and not two, has
\* been delivered for it.
C3_ExactlyOneOutcome ==
    \A s \in Sessions : Finished(s) => Len(outcomes[s]) = 1

\* C4: whenever a session has ended (an outcome has been delivered for it, or
\* its waiter thread has ended), the session's worker process is not running
\* any more and has been reaped.
C4_ReleasedAtTerminal ==
    \A s \in Sessions :
        (outcomes[s] # <<>> \/ Finished(s)) =>
            \/ proc[s].st = "none"
            \/ proc[s].st = "exited" /\ proc[s].reaped

\* C5: a worker that exits with status 0 right after the stop line and whose
\* artifact is within the tolerance gets the outcome Success naming that
\* artifact, whatever the interleaving of the waiter with the UI thread.
C5_PromptExitIsSuccess ==
    \A s \in Sessions :
        \A f \in files :
            /\ Finished(s)
            /\ proc[s].st = "exited" /\ proc[s].code = 0
            /\ proc[s].stopAt = now
            /\ f.writer = s /\ IsRecent(f, now)
            => outcomes[s] = <<[kind |-> "Success", what |-> "complete",
                                file |-> f.name]>>

\* C6: when the wait on a session's own worker times out, that worker is
\* terminated and TimedOut is delivered for the session exactly once.
C6_TimeoutTerminatesOnce ==
    \A s \in Sessions :
        waiter[s].via = "timeout" /\ waiter[s].target = s =>
            /\ proc[s].st = "exited" /\ proc[s].code = 0 - SIGTERM
            /\ Kinds(s) = <<"TimedOut">>

\* C7: when the session's worker exited with status 0 and the waiter found no
\* transcript within the tolerance (no .txt file at all, or only older ones),
\* the outcome delivered is Failure.
C7_NoArtifactIsFailure ==
    \A s \in Sessions :
        /\ waiter[s].via = "exit" /\ waiter[s].target = s
        /\ proc[s].code = 0
        /\ waiter[s].seen \in {"nothing", "old"}
        => Kinds(s) = <<"Failure">>

\* C8: when writing the stop line raised, stop_recording ends with the worker
\* not running and reaped, exactly one Failure delivered for the session, no
\* waiter thread, recording False and no process handle held.
C8_WriteErrorReleases ==
    \A s \in Sessions :
        WriteFailed(s) =>
            /\ proc[s].st = "exited" /\ proc[s].reaped
            /\ Kinds(s) = <<"Failure">>
            /\ waiter[s].pc = "none"
            /\ recorder_process = s => mainpc = "stopping"
            /\ (s = nsess /\ mainpc = "idle") =>
                   (recording = FALSE /\ recorder_process = None)

C8_Witness ==
    /\ nsess >= 1
    /\ WriteFailed(nsess)
    /\ mainpc = "idle"

\* C9: after start_recording failed to spawn the worker, the error has been
\* notified, the session has no process, recording is False, no handle is
\* held, and the next start is accepted: it can spawn a worker.
C9_SpawnFailureRecovers ==
    \A s \in Sessions :
        SpawnFailed(s) =>
            /\ Kinds(s) = <<"Failure">>
            /\ proc[s].st = "none"
            /\ waiter[s].pc = "none"
            /\ s = nsess => /\ recording = FALSE
                            /\ recorder_process = None
                            /\ mainpc = "idle"
                            /\ nsess < MaxSessions => ENABLED StartOk

C9_Witness ==
    \E s \in Sessions :
        /\ s + 1 \in Sessions
        /\ SpawnFailed(s)
        /\ proc[s + 1].st = "capture"

\* C10: no terminate reaches a worker between its stop line and the expiry
\* of the 120-second wait: a worker that was signalled to stop is killed, if
\* at all, only once 120 seconds have passed since the stop line.
C10_NoTerminateInsideWait ==
    \A p \in Sessions :
        proc[p].killedBy # None /\ proc[p].stopAt >= 0 =>
            proc[p].killedAt >= proc[p].stopAt + ExitWait

\* C11: stop_recording returns without waiting for the worker: the UI thread
\* inside stop_recording can always complete it, whatever the worker does, and
\* the outcomes of the wait (complete, no transcript, timeout) are delivered
\* only by a waiter thread that has run to its end, never by stop_recording.
C11_StopDoesNotBlock ==
    /\ mainpc = "stopping" => ENABLED StopFinish
    /\ \A s \in Sessions :
          (\E i \in 1..Len(outcomes[s]) :
               outcomes[s][i].what \in {"complete", "no transcript", "timeout"})
          => waiter[s].pc = "done"

C11_Witness ==
    /\ mainpc = "idle"
    /\ \E p \in Sessions :
          /\ proc[p].st = "transcribe"
          /\ outcomes[p] = <<>>
          /\ nsess > p

\* C16: when the session's worker failed before transcription (it exited
\* without ever naming a transcript), the waiter that saw it exit delivers no
\* Success for the session.
C16_WorkerFailureIsNotSuccess ==
    \A s \in Sessions :
        /\ waiter[s].via = "exit" /\ waiter[s].target = s
        /\ proc[s].tname < 0
        => \A i \in 1..Len(outcomes[s]) : outcomes[s][i].kind # "Success"

\* C17: no waiter thread ends in an unhandled exception.
C17_NoUnhandledException ==
    \A s \in Sessions : waiter[s].pc # "crashed"

\* C20: an artifact written by the session's worker after the stop line is
\* within the tolerance when the waiter that saw this worker exit checks the
\* directory: the waiter classifies the directory as holding a recent file.
C20_JustInTimeArtifactFound ==
    \A s \in Sessions :
        \A f \in files :
            /\ waiter[s].via = "exit" /\ waiter[s].target = s
            /\ f.writer = s /\ f.mtime >= proc[s].stopAt
            => waiter[s].seen = "recent"

C20_Witness ==
    \E s \in Sessions :
        \E f \in files :
            /\ waiter[s].via = "exit" /\ waiter[s].target = s
            /\ f.writer = s
            /\ f.mtime = proc[s].stopAt + ExitWait
            /\ waiter[s].seen = "recent"

Capturing == worker.pc \in {"read", "check"}

\* C12: once a line has arrived on stdin, or stdin has been closed, the
\* stop-detection thread ends and the capture loop ends; the loop reads at
\* most one chunk after the thread has ended.
C12_StopEndsCapture ==
    /\ [](worker.late <= 1)
    /\ (worker.thread = "blocked" /\ worker.stdin # "open") ~> (worker.thread = "ended")
    /\ (Capturing /\ worker.stdin # "open") ~> ~Capturing

C12_Witness ==
    /\ worker.stdin = "eof"
    /\ worker.thread = "ended"
    /\ worker.late = 1
    /\ worker.pc = "close"

\* C13: the worker exits with status 0 exactly when it wrote its artifact; after
\* a failure it exits with a non-zero status, has written a diagnostic to its
\* error channel and leaves no artifact.
C13_ExitStatusTellsArtifact ==
    worker.pc = "exited" =>
        /\ worker.code = 0 <=> worker.artifact = "complete"
        /\ worker.failed # "none" =>
               worker.code # 0 /\ worker.stderr /\ worker.artifact = "absent"

C15_TempFileDeleted ==
    worker.pc = "exited" => ~worker.temp

\* reading a text back: the fields between the colons, as decimal numbers
DigitVal(c) == CHOOSE d \in 0..9 : Digit(d) = c
IsDigit(c) == \E d \in 0..9 : Digit(d) = c

RECURSIVE ParseInt(_)
ParseInt(cs) == IF cs = <<>> THEN 0
                ELSE 10 * ParseInt(SubSeq(cs, 1, Len(cs) - 1)) + DigitVal(cs[Len(cs)])

\* str.split(sep): the pieces between the separators, in order
SepAt(cs, sep) == {i \in 1..Len(cs) : cs[i] = sep}

Split(cs, sep) ==
    [k \in 1..(Cardinality(SepAt(cs, sep)) + 1) |->
        LET b == CHOOSE x \in {0} \cup SepAt(cs, sep) :
                     Cardinality({y \in SepAt(cs, sep) : y <= x}) = k - 1
            e == CHOOSE x \in SepAt(cs, sep) \cup {Len(cs) + 1} :
                     x > b /\ \A y \in SepAt(cs, sep) : y > b => y >= x
        IN  SubSeq(cs, b + 1, e - 1)]

WellFormedStamp(cs) ==
    LET f == Split(cs, ":") IN
    /\ Len(cs) = 8
    /\ Len(f) = 3
    /\ \A i \in 1..3 : Len(f[i]) = 2 /\ \A j \in 1..2 : IsDigit(f[i][j])
    /\ ParseInt(f[2]) \in 0..59
    /\ ParseInt(f[3]) \in 0..59

ParseStamp(cs) ==
    LET f == Split(cs, ":") IN
    3600 * ParseInt(f[1]) + 60 * ParseInt(f[2]) + ParseInt(f[3])

\* C18: for every integer second count up to the bound, format_timestamp
\* gives HH:MM:SS with two digits in each field, MM and SS in 0..59, and
\* HH*3600 + MM*60 + SS is the second count again.
C18_FormatRoundTrips ==
    fmt.pc = "out" =>
        /\ WellFormedStamp(fmt.out)
        /\ ParseStamp(fmt.out) = fmt.secs

C18_Witness ==
    /\ fmt.pc = "out"
    /\ fmt.secs = 86399
    /\ fmt.out = <<"2", "3", ":", "5", "9", ":", "5", "9">>

NotBlank(l) == l # <<>>

\* the text of segment g, without the whitespace around it, stated without strip
IsStripOf(t, text) ==
    /\ t = <<>> \/ (t[1] \notin Space /\ t[Len(t)] \notin Space)
    /\ \E a \in 0..Len(text) :
          /\ a + Len(t) <= Len(text)
          /\ SubSeq(text, a + 1, a + Len(t)) = t
          /\ \A k \in 1..Len(text) : (k <= a \/ k > a + Len(t)) => text[k] \in Space

SegmentLineOk(l, g) ==
    /\ Len(l) >= 11
    /\ l[1] = "[" /\ l[10] = "]" /\ l[11] = " "
    /\ WellFormedStamp(SubSeq(l, 2, 9))
    /\ ParseStamp(SubSeq(l, 2, 9)) = g.start \div 10
    /\ IsStripOf(SubSeq(l, 12, Len(l)), g.text)

ExampleSegments == <<[start |-> 0, text |-> Hello], [start |-> 655, text |-> World]>>
ExampleLines ==
    << <<"[", "0", "0", ":", "0", "0", ":", "0", "0", "]", " ", "h", "e", "l", "l", "o">>,
       <<"[", "0", "0", ":", "0", "1", ":", "0", "5", "]", " ", "w", "o", "r", "l", "d">> >>

\* the header, then one line per segment, in order
SegmentLinesOk ==
    LET lines == Split(fmt.body, "\n")
        rest == SelectSeq(SubSeq(lines, 5, Len(lines)), NotBlank)
    IN  /\ lines[1] = <<"MEETING RECORDING TRANSCRIPT">>
        /\ lines[2] = <<"Recorded: ", Stamp>>
        /\ lines[3] = <<"Device: ", fmt.device>>
        /\ lines[4] = Rep("=", SeparatorLen)
        /\ Len(rest) = Len(fmt.segments)
        /\ \A k \in 1..Len(rest) : SegmentLineOk(rest[k], fmt.segments[k])
        /\ fmt.segments = ExampleSegments => rest = ExampleLines

\* a text whose line breaks, if any, are all at its ends
OneLine(text) ==
    \A j \in 1..Len(text) :
        text[j] = "\n" => \/ \A k \in 1..j : text[k] \in Space
                          \/ \A k \in j..Len(text) : text[k] \in Space

\* C19: for a response with segments, the transcript starts with the title
\* line, the Recorded line, the Device line and the separator, and its other
\* non-empty lines are one per segment, in order, "[HH:MM:SS] <text>" with the
\* start truncated to whole seconds and the text without the whitespace around
\* it; the segments (0.0, hello), (65.5, world) give "[00:00:00] hello" and
\* "[00:01:05] world".
C19_SegmentLines ==
    (fmt.pc = "done" /\ fmt.segments # <<>>) => SegmentLinesOk

\* the same, for the responses whose segment texts have no line break inside
SingleLineSegmentsOk ==
    (/\ fmt.pc = "done"
     /\ fmt.segments # <<>>
     /\ \A k \in 1..Len(fmt.segments) : OneLine(fmt.segments[k].text))
        => SegmentLinesOk

\* C21: the waiter thread of a session never evaluates a cleared handle
\* (None), waits only on the worker of its own session, and terminates only
\* the worker of its own session.
C21_WaiterKeepsItsWorker ==
    \A s \in Sessions :
        /\ waiter[s].pc # "crashed"
        /\ waiter[s].target \in {None, s}
        /\ \A p \in Sessions : proc[p].killedBy = s => p = s

HasTxtSuffix(n) ==
    /\ Len(n) >= 4
    /\ n[Len(n) - 3] = "." /\ n[Len(n) - 2] = "t"
    /\ n[Len(n) - 1] = "x" /\ n[Len(n)] = "t"

\* C22: get_latest_transcripts(count) returns at most count entries, all of
\* them entries of the directory whose name ends in .txt, the newest ones,
\* newest first; as many as there are, up to count, when the listing works and
\* none when it fails; and the directory is as it was before the call.
C22_LatestTranscriptsReadOnly ==
    fmt.pc = "returned" =>
        LET r == fmt.result
            txt == {f \in fmt.before : HasTxtSuffix(f.name)}
            got == {r[i] : i \in 1..Len(r)}
        IN  /\ Len(r) <= fmt.count
            /\ got \subseteq txt
            /\ Cardinality(got) = Len(r)
            /\ \A i, j \in 1..Len(r) : i < j => r[i].mtime >= r[j].mtime
            /\ \A f \in txt \ got : \A i \in 1..Len(r) : r[i].mtime >= f.mtime
            /\ fmt.listable =>
                   Len(r) = IF fmt.count < Cardinality(txt)
                            THEN fmt.count ELSE Cardinality(txt)
            /\ ~fmt.listable => r = <<>>
            /\ fmt.dir = fmt.before

C22_Witness ==
    /\ fmt.pc = "returned"
    /\ fmt.count = 1
    /\ fmt.listable
    /\ fmt.before = {[name |-> <<"a">> \o DotTxt, mtime |-> 0],
                     [name |-> <<"b">> \o DotTxt, mtime |-> 60],
                     [name |-> <<"a", ".", "t", "x">>, mtime |-> 60],
                     [name |-> <<"t", "x", "t">>, mtime |-> 60]}
    /\ fmt.result = <<[name |-> <<"b">> \o DotTxt, mtime |-> 60]>>

BothClosedSamePath ==
    /\ \A r \in Runs : worker.run[r].pc = "closed"
    /\ worker.run[1].path = worker.run[2].path

LastWriter == CHOOSE r \in Runs : \A q \in Runs : worker.run[q].wrote <= worker.run[r].wrote

\* C23: two runs that name their transcript in the same minute have the same
\* path; when both have finished, the file holds exactly the content of the
\* run that wrote last, also when the two runs wrote at the same time.
C23_LastWriterWins ==
    BothClosedSamePath =>
        worker.disk[worker.run[1].path] =
            Content(LastWriter, worker.run[LastWriter].len)

\* the same, for two runs of which one closed its file before the other opened it
SequentialLastWriterWins ==
    (/\ BothClosedSamePath
     /\ \E a, b \in Runs : worker.run[a].closed < worker.run[b].opened)
        => worker.disk[worker.run[1].path] =
               Content(LastWriter, worker.run[LastWriter].len)

\* C24: a Success delivered for a session by the waiter that saw the session's
\* own worker exit names a file written by that worker, never a file left by
\* another session or by an earlier run of the application.
C24_SuccessNamesOwnArtifact ==
    [][\A s \in Sessions :
          (/\ waiter[s].target = s
           /\ Len(outcomes'[s]) = Len(outcomes[s]) + 1
           /\ outcomes'[s][Len(outcomes'[s])].kind = "Success")
          => \E f \in files : /\ f.name = outcomes'[s][Len(outcomes'[s])].file
                              /\ f.writer = s]_vars

\* C25: when no handler is running, the menu item reads "Stop Recording" and
\* the title shows the recording indicator exactly when self.recording is True
\* and a process handle is held.
C25_DisplayAgreesWithState ==
    mainpc = "idle" =>
        /\ menu_title = "Stop Recording" <=> (recording /\ recorder_process # None)
        /\ title = "Recording..." <=> (recording /\ recorder_process # None)

\* C26: when transcribe_audio has returned None, the run has left no
\* transcript file; a transcript file of the run exists only if it was written
\* completely and transcribe_audio returned its path.
C26_FailureLeavesNoArtifact ==
    worker.pc \in {"cleanup", "exit", "exited"} =>
        /\ ~worker.ret => worker.artifact = "absent"
        /\ worker.artifact # "absent" => (worker.artifact = "complete" /\ worker.ret)

\* C27: after start_recording the script it launches exists, and every
\* session whose Popen succeeded (Recording Started was notified) was given a
\* script that existed when it was spawned, so its worker started capturing.
C27_LaunchedScriptExists ==
    /\ nsess > 0 => LaunchedScript \in worker.scripts
    /\ \A s \in Sessions : proc[s].st # "none" => worker.spawn[s] = "script"

\* the same, when debug_recorder.py is beside the application
LaunchedScriptPresentOk ==
    LaunchedScript \in worker.scripts =>
        \A s \in Sessions : proc[s].st # "none" => worker.spawn[s] = "script"

====
